---- MODULE Spec2Model ----
(***************************************************************************)
(* Model of xcompact3d_toolbox.parameters: the Parameters class (a         *)
(* traitlets.HasTraits object), its validators and observers, load(), and  *)
(* the module-level helpers _validate_mesh and divisorGenerator.           *)
(*                                                                         *)
(* A float is modelled as an exact rational <<numerator, denominator>> in  *)
(* lowest terms; the byte count of the footprint estimate is a natural     *)
(* number in base-1000 limbs (least significant first), since it exceeds   *)
(* the range of a machine integer.                                         *)
(***************************************************************************)
EXTENDS Integers, Sequences, FiniteSets, TLC

VARIABLES
  prm,      \* the trait values of the Parameters instance
  raised,   \* the exception the last call ended with, "none" when it returned
  pre,      \* the trait values the instance had when the last call began
  call,     \* the last call: [op, name, value]
  fired,    \* how many observer callbacks the last call ran
  warned,   \* the keys the last call warned about
  saved,    \* the files the last call wrote: [name, content]
  steps,    \* how many assignments have been made
  clean,    \* no assignment made so far has raised
  built,    \* the keyword overrides the instance was constructed with
  mesh_n,   \* _validate_mesh: the point count under test
  mesh_ncl, \* _validate_mesh: the periodicity flag under test
  mesh_out, \* _validate_mesh: "unset", "ok" or "TraitError"
  div_n,    \* divisorGenerator: the number under test
  div_out   \* divisorGenerator: <<"unset">> or <<"list", what it yielded>>

vars ==
  <<prm, raised, pre, call, fired, warned, saved, steps, clean, built,
    mesh_n, mesh_ncl, mesh_out, div_n, div_out>>

(***************************************************************************)
(* Bounds of the model.                                                    *)
(***************************************************************************)
\* number of assignments made on one instance
MaxSteps == 2

\* number of assignments when only one group of traits is assigned
MaxGroupSteps == 3

\* number of calls when an instance is constructed, loaded and written
MaxBulkSteps == 2

\* largest point count handed to _validate_mesh on its own
MaxMeshN == 1300

\* largest point count of the candidate tables (possible_mesh ends at 9001)
MaxTableN == 9001

\* largest number handed to divisorGenerator on its own
MaxDivN == 120
\* frames on the call stack before the call is cut off as runaway recursion
\* (Python ends unbounded re-triggering with RecursionError)
MaxDepth == 24

(***************************************************************************)
(* Exact arithmetic.                                                       *)
(***************************************************************************)
Abs(i) == IF i < 0 THEN -i ELSE i

RECURSIVE Gcd(_, _)
Gcd(a, b) == IF b = 0 THEN a ELSE Gcd(b, a % b)

\* the rational n/d (d > 0) in lowest terms
Rat(n, d) ==
  LET g == Gcd(Abs(n), d) IN IF g = 0 THEN <<0, 1>> ELSE <<n \div g, d \div g>>

RatMulInt(q, k) == Rat(q[1] * k, q[2])

RatDivInt(q, k) == Rat(q[1], q[2] * k)

\* a natural number below 2^31 as base-1000 limbs
RECURSIVE BigFromInt(_)
BigFromInt(n) == IF n = 0 THEN <<>> ELSE <<n % 1000>> \o BigFromInt(n \div 1000)

RECURSIVE BigMulCarry(_, _, _)
BigMulCarry(a, k, carry) ==
  IF a = <<>> THEN BigFromInt(carry)
  ELSE LET t == Head(a) * k + carry
       IN <<t % 1000>> \o BigMulCarry(Tail(a), k, t \div 1000)

RECURSIVE BigTrim(_)
BigTrim(a) ==
  IF a # <<>> /\ a[Len(a)] = 0 THEN BigTrim(SubSeq(a, 1, Len(a) - 1)) ELSE a

\* a * k for a small natural k
BigMul(a, k) == BigTrim(BigMulCarry(a, k, 0))

\* long division from the most significant limb: <<quotient limbs, remainder>>
RECURSIVE BigDivRem(_, _)
BigDivRem(a, k) ==
  IF a = <<>> THEN <<(<<>>), 0>>
  ELSE LET hi == BigDivRem(Tail(a), k)
           t  == hi[2] * 1000 + Head(a)
       IN <<(<<t \div k>> \o hi[1]), t % k>>

\* a // k for a small natural k > 0
BigDiv(a, k) == BigTrim(BigDivRem(a, k)[1])

RECURSIVE BigAddCarry(_, _, _)
BigAddCarry(a, b, carry) ==
  IF a = <<>> /\ b = <<>> THEN BigFromInt(carry)
  ELSE LET x == IF a = <<>> THEN 0 ELSE Head(a)
           y == IF b = <<>> THEN 0 ELSE Head(b)
           t == x + y + carry
       IN <<t % 1000>> \o
          BigAddCarry(IF a = <<>> THEN a ELSE Tail(a),
                      IF b = <<>> THEN b ELSE Tail(b), t \div 1000)

BigAdd(a, b) == BigTrim(BigAddCarry(a, b, 0))

RECURSIVE BigLess(_, _)
BigLess(a, b) ==
  IF Len(a) # Len(b) THEN Len(a) < Len(b)
  ELSE IF a = <<>> THEN FALSE
  ELSE IF a[Len(a)] # b[Len(b)] THEN a[Len(a)] < b[Len(b)]
  ELSE BigLess(SubSeq(a, 1, Len(a) - 1), SubSeq(b, 1, Len(b) - 1))

\* a - b for a >= b
RECURSIVE BigSubBorrow(_, _, _)
BigSubBorrow(a, b, borrow) ==
  IF a = <<>> THEN <<>>
  ELSE LET y == IF b = <<>> THEN 0 ELSE Head(b)
           t == Head(a) - y - borrow
       IN <<IF t < 0 THEN t + 1000 ELSE t>> \o
          BigSubBorrow(Tail(a), IF b = <<>> THEN b ELSE Tail(b),
                       IF t < 0 THEN 1 ELSE 0)

BigSub(a, b) == BigTrim(BigSubBorrow(a, b, 0))

\* signed integers: [neg, mag]
SignedAdd(x, y) ==
  IF x.neg = y.neg THEN [neg |-> x.neg, mag |-> BigAdd(x.mag, y.mag)]
  ELSE IF BigLess(x.mag, y.mag) THEN [neg |-> y.neg, mag |-> BigSub(y.mag, x.mag)]
  ELSE IF x.mag = y.mag THEN [neg |-> FALSE, mag |-> <<>>]
  ELSE [neg |-> x.neg, mag |-> BigSub(x.mag, y.mag)]

(***************************************************************************)
(* Module-level tables and helpers.                                        *)
(***************************************************************************)
possible_mesh ==
  << 9, 11, 13, 17, 19, 21, 25, 31, 33, 37, 41, 49,
     51, 55, 61, 65, 73, 81, 91, 97, 101, 109, 121, 129,
     145, 151, 161, 163, 181, 193, 201, 217, 241, 251, 257, 271,
     289, 301, 321, 325, 361, 385, 401, 433, 451, 481, 487, 501,
     513, 541, 577, 601, 641, 649, 721, 751, 769, 801, 811, 865,
     901, 961, 973, 1001, 1025, 1081, 1153, 1201, 1251, 1281, 1297, 1351,
     1441, 1459, 1501, 1537, 1601, 1621, 1729, 1801, 1921, 1945, 2001, 2049,
     2161, 2251, 2305, 2401, 2431, 2501, 2561, 2593, 2701, 2881, 2917, 3001,
     3073, 3201, 3241, 3457, 3601, 3751, 3841, 3889, 4001, 4051, 4097, 4321,
     4375, 4501, 4609, 4801, 4861, 5001, 5121, 5185, 5401, 5761, 5833, 6001,
     6145, 6251, 6401, 6481, 6751, 6913, 7201, 7291, 7501, 7681, 7777, 8001,
     8101, 8193, 8641, 8749, 9001 >>

\* faulty variant of possible_mesh_p: the table is not shifted by one
possible_mesh_p_unshifted == possible_mesh

possible_mesh_p == [i \in 1..Len(possible_mesh) |-> possible_mesh[i] - 1]

\* while n % val == 0: n //= val
RECURSIVE DivideOut(_, _)
DivideOut(n, val) == IF n % val = 0 THEN DivideOut(n \div val, val) ELSE n

\* faulty variant of _validate_mesh: the factor 2 is divided out like 3 and 5
\* instead of being required
_validate_mesh_any_parity(n, ncl) ==
  LET pmin == IF ncl THEN 8 ELSE 9
      n1   == IF ~ncl THEN n - 1 ELSE n
      n2   == DivideOut(DivideOut(DivideOut(n1, 2), 3), 5)
  IN IF n < pmin THEN "TraitError"
     ELSE IF n2 # 1 THEN "TraitError"
     ELSE "ok"

\* _validate_mesh(n, ncl, ...): "ok" when it returns, "TraitError" when it raises
_validate_mesh(n, ncl) ==
  LET pmin == IF ncl THEN 8 ELSE 9
      n1   == IF ~ncl THEN n - 1 ELSE n
      n2   == IF n1 % 2 = 0
              THEN DivideOut(DivideOut(DivideOut(n1 \div 2, 2), 3), 5)
              ELSE n1
  IN IF n < pmin THEN "TraitError"
     ELSE IF n2 # 1 THEN "TraitError"
     ELSE "ok"

\* int(math.sqrt(n))
RECURSIVE ISqrtFrom(_, _)
ISqrtFrom(n, i) == IF (i + 1) * (i + 1) > n THEN i ELSE ISqrtFrom(n, i + 1)

\* list(divisorGenerator(n)): the small divisors as they are found, then the
\* list large_divisors = [0, n/i, ...] reversed
RECURSIVE DivisorScan(_, _, _, _, _)
DivisorScan(n, i, last, small, large) ==
  IF i > last THEN small \o large
  ELSE IF n % i = 0
       THEN DivisorScan(n, i + 1, last, Append(small, i),
                        IF i * i # n THEN <<n \div i>> \o large ELSE large)
       ELSE DivisorScan(n, i + 1, last, small, large)

divisorGenerator(n) == DivisorScan(n, 1, ISqrtFrom(n, 0), <<>>, <<0>>)

(***************************************************************************)
(* The traits of class Parameters.                                         *)
(***************************************************************************)
Zero == <<0, 1>>

One == <<1, 1>>

\* the str '' and the value None, in the shape of a size text
EmptyText == [unit |-> "", neg |-> FALSE, tenths |-> <<>>]

NoneText == [unit |-> "None", neg |-> FALSE, tenths |-> <<>>]

\* the value of every trait of a freshly constructed instance
Default ==
  [ p_row |-> 0, p_col |-> 0, itype |-> 10, iin |-> 0,
    nx |-> 17, ny |-> 17, nz |-> 17, xlx |-> One, yly |-> One, zlz |-> One,
    nclx1 |-> 2, nclxn |-> 2, ncly1 |-> 2, nclyn |-> 2, nclz1 |-> 2, nclzn |-> 2,
    istret |-> 0, beta |-> One, dt |-> <<1, 1000>>, ifirst |-> 0, ilast |-> 0,
    re |-> <<1000, 1>>, init_noise |-> Zero, inflow_noise |-> Zero,
    ilesmod |-> 1, ivisu |-> 1, ipost |-> 1, iibm |-> 0, numscalar |-> 0,
    gravx |-> Zero, gravy |-> Zero, gravz |-> Zero,
    ifirstder |-> 4, isecondder |-> 4, ipinter |-> 3, itimescheme |-> 3,
    nu0nu |-> <<4, 1>>, cnu |-> <<11, 25>>,
    irestart |-> 0, nvisu |-> 1, icheckpoint |-> 1000, ioutput |-> 1000,
    iprocessing |-> 1000, ifilenameformat |-> 9,
    _iscalar |-> FALSE, sc |-> <<>>, ri |-> <<>>, uset |-> <<>>, cp |-> <<>>,
    scalar_lbound |-> <<>>, scalar_ubound |-> <<>>, iibmS |-> 0,
    nclxS1 |-> 2, nclxSn |-> 2, nclyS1 |-> 2, nclySn |-> 2, nclzS1 |-> 2, nclzSn |-> 2,
    jles |-> 0, nobjmax |-> 1, nraf |-> 10, filename |-> "input.i3d",
    _mx |-> 1, _my |-> 1, _mz |-> 1,
    dx |-> <<1, 16>>, dy |-> <<1, 16>>, dz |-> <<1, 16>>,
    _nclx |-> FALSE, _ncly |-> FALSE, _nclz |-> FALSE,
    _possible_mesh_x |-> possible_mesh, _possible_mesh_y |-> possible_mesh,
    _possible_mesh_z |-> possible_mesh,
    ncores |-> 4, _possible_p_row |-> divisorGenerator(4),
    _possible_p_col |-> divisorGenerator(4), size |-> EmptyText ]

TraitNames == DOMAIN Default

\* the traits declared traitlets.Float
FloatTraits ==
  { "xlx", "yly", "zlz", "beta", "dt", "re", "init_noise", "inflow_noise",
    "gravx", "gravy", "gravz", "nu0nu", "cnu", "dx", "dy", "dz" }

\* min= of the Float traits that declare one (0 in every declaration)
FloatMin ==
  [ xlx |-> Zero, yly |-> Zero, zlz |-> Zero, beta |-> Zero, dt |-> Zero,
    nu0nu |-> Zero, cnu |-> Zero, dx |-> Zero, dy |-> Zero, dz |-> Zero ]

\* min= of the Int traits that declare one
IntMin ==
  [ p_row |-> 0, p_col |-> 0, itype |-> 0, iin |-> 0, nx |-> 0, ny |-> 0, nz |-> 0,
    nclx1 |-> 0, nclxn |-> 0, ncly1 |-> 0, nclyn |-> 0, nclz1 |-> 0, nclzn |-> 0,
    istret |-> 0, ifirst |-> 0, ilast |-> 0, ilesmod |-> 0, ivisu |-> 0, ipost |-> 0,
    iibm |-> 0, numscalar |-> 0, ifirstder |-> 1, isecondder |-> 1, itimescheme |-> 1,
    irestart |-> 0, nvisu |-> 1, icheckpoint |-> 1, ioutput |-> 1, iprocessing |-> 1,
    ifilenameformat |-> 1, iibmS |-> 0,
    nclxS1 |-> 0, nclxSn |-> 0, nclyS1 |-> 0, nclySn |-> 0, nclzS1 |-> 0, nclzSn |-> 0,
    jles |-> 0, nobjmax |-> 0, nraf |-> 1, _mx |-> 1, _my |-> 1, _mz |-> 1, ncores |-> 1 ]

\* max= of the Int traits that declare one
IntMax ==
  [ itype |-> 10, iin |-> 2,
    nclx1 |-> 2, nclxn |-> 2, ncly1 |-> 2, nclyn |-> 2, nclz1 |-> 2, nclzn |-> 2,
    istret |-> 3, ilesmod |-> 1, ivisu |-> 1, ipost |-> 1, iibm |-> 2, numscalar |-> 9,
    ifirstder |-> 4, isecondder |-> 5, itimescheme |-> 7, irestart |-> 1, iibmS |-> 3,
    nclxS1 |-> 2, nclxSn |-> 2, nclyS1 |-> 2, nclySn |-> 2, nclzS1 |-> 2, nclzSn |-> 2,
    jles |-> 4 ]

\* the tag group= of every trait that has one
Group ==
  [ p_row |-> "BasicParam", p_col |-> "BasicParam", itype |-> "BasicParam",
    iin |-> "BasicParam", nx |-> "BasicParam", ny |-> "BasicParam", nz |-> "BasicParam",
    xlx |-> "BasicParam", yly |-> "BasicParam", zlz |-> "BasicParam",
    nclx1 |-> "BasicParam", nclxn |-> "BasicParam", ncly1 |-> "BasicParam",
    nclyn |-> "BasicParam", nclz1 |-> "BasicParam", nclzn |-> "BasicParam",
    istret |-> "BasicParam", beta |-> "BasicParam", dt |-> "BasicParam",
    ifirst |-> "BasicParam", ilast |-> "BasicParam", re |-> "BasicParam",
    init_noise |-> "BasicParam", inflow_noise |-> "BasicParam",
    ilesmod |-> "BasicParam", ivisu |-> "BasicParam", ipost |-> "BasicParam",
    iibm |-> "BasicParam", numscalar |-> "BasicParam", gravx |-> "BasicParam",
    gravy |-> "BasicParam", gravz |-> "BasicParam",
    ifirstder |-> "NumOptions", isecondder |-> "NumOptions",
    itimescheme |-> "NumOptions", nu0nu |-> "NumOptions", cnu |-> "NumOptions",
    irestart |-> "InOutParam", nvisu |-> "InOutParam", icheckpoint |-> "InOutParam",
    ioutput |-> "InOutParam", iprocessing |-> "InOutParam",
    sc |-> "ScalarParam", ri |-> "ScalarParam", uset |-> "ScalarParam",
    cp |-> "ScalarParam", scalar_lbound |-> "ScalarParam",
    scalar_ubound |-> "ScalarParam", iibmS |-> "ScalarParam",
    nclxS1 |-> "ScalarParam", nclxSn |-> "ScalarParam", nclyS1 |-> "ScalarParam",
    nclySn |-> "ScalarParam", nclzS1 |-> "ScalarParam", nclzSn |-> "ScalarParam",
    jles |-> "LESModel", nobjmax |-> "ibmstuff", nraf |-> "ibmstuff" ]

GroupedTraits == DOMAIN Group

\* the type and bounds check of a trait (TraitType.validate); an int or a rational
\* is what the model hands to an Int or a Float trait
BoundsOK(name, value) ==
  IF name \in FloatTraits
  THEN name \in DOMAIN FloatMin => value[1] >= 0
  ELSE IF name = "size" THEN value # NoneText
  ELSE /\ name \in DOMAIN IntMin => value >= IntMin[name]
       /\ name \in DOMAIN IntMax => value <= IntMax[name]

\* the axis letter a per-axis trait name carries
AxisOf ==
  [ nx |-> "x", ny |-> "y", nz |-> "z", dx |-> "x", dy |-> "y", dz |-> "z",
    xlx |-> "x", yly |-> "y", zlz |-> "z", _nclx |-> "x", _ncly |-> "y", _nclz |-> "z",
    nclx1 |-> "x", nclxn |-> "x", nclxS1 |-> "x", nclxSn |-> "x",
    ncly1 |-> "y", nclyn |-> "y", nclyS1 |-> "y", nclySn |-> "y",
    nclz1 |-> "z", nclzn |-> "z", nclzS1 |-> "z", nclzSn |-> "z" ]

Axes == {"x", "y", "z"}

\* the names @traitlets.observe lists for _observe_bc
BCNames ==
  { "nclx1", "nclxn", "nclxS1", "nclxSn", "ncly1", "nclyn", "nclyS1", "nclySn",
    "nclz1", "nclzn", "nclzS1", "nclzSn" }

\* f"ncl{dim}1 ncl{dim}n ncl{dim}S1 ncl{dim}Sn".split()
BCFields(dim) ==
  << "ncl" \o dim \o "1", "ncl" \o dim \o "n", "ncl" \o dim \o "S1", "ncl" \o dim \o "Sn" >>

(***************************************************************************)
(* The methods as programs.  A method is an operator of the trait values   *)
(* v, its argument and a statement number pc, giving the statement at pc:  *)
(* a record [kind, name, value, next, catch] where next is the statement   *)
(* that follows and catch the statement of the except clause guarding it   *)
(* (0 when it is not inside a try).                                        *)
(***************************************************************************)
\* self.<name> = value
Set(name, value, next) ==
  [kind |-> "set", name |-> name, value |-> value, next |-> next, catch |-> 0]

\* a branch not taken
Skip(next) ==
  [kind |-> "skip", name |-> "", value |-> 0, next |-> next, catch |-> 0]

\* raise e
RaiseStmt(e) ==
  [kind |-> "raise", name |-> e, value |-> 0, next |-> 0, catch |-> 0]

\* the end of the method
Return ==
  [kind |-> "return", name |-> "", value |-> 0, next |-> 0, catch |-> 0]

\* cb(arg)
Call(cb, arg, next) ==
  [kind |-> "call", name |-> cb, value |-> arg, next |-> next, catch |-> 0]

\* warnings.warn(... key ...)
Warn(key, next) ==
  [kind |-> "warn", name |-> key, value |-> 0, next |-> next, catch |-> 0]

\* file.write(content) on the file opened as name
WriteFile(name, content, next) ==
  [kind |-> "write", name |-> name, value |-> content, next |-> next, catch |-> 0]

\* try: stmt   except: the statement at handler
Try(stmt, handler) == [stmt EXCEPT !.catch = handler]

\* faulty variant of _observe_resolution: the resolution rule multiplies by
\* the point count instead of the cached interval count _m
_observe_resolution_by_count(v, change, pc) ==
  LET dim == AxisOf[change.name]
      n   == "n" \o dim
      d   == "d" \o dim
      l   == dim \o "l" \o dim
      m   == "_m" \o dim
  IN CASE pc = 1 -> IF change.name = n
                    THEN Set(m, IF v["_ncl" \o dim] THEN change.new ELSE change.new - 1, 2)
                    ELSE Skip(3)
       [] pc = 2 -> IF v[m] = 0 THEN RaiseStmt("ZeroDivisionError")
                    ELSE Set(d, RatDivInt(v[l], v[m]), 3)
       [] pc = 3 -> IF change.name = d /\ RatMulInt(change.new, v[n]) # v[l]
                    THEN Set(l, RatMulInt(change.new, v[n]), 4)
                    ELSE Skip(4)
       [] pc = 4 -> IF change.name # l THEN Skip(5)
                    ELSE IF v[m] = 0 THEN RaiseStmt("ZeroDivisionError")
                    ELSE IF RatDivInt(change.new, v[m]) # v[d]
                         THEN Set(d, RatDivInt(change.new, v[m]), 5)
                         ELSE Skip(5)
       [] pc = 5 -> Return

_observe_resolution(v, change, pc) ==
  LET dim == AxisOf[change.name]
      n   == "n" \o dim
      d   == "d" \o dim
      l   == dim \o "l" \o dim
      m   == "_m" \o dim
  IN CASE pc = 1 -> IF change.name = n
                    THEN Set(m, IF v["_ncl" \o dim] THEN change.new ELSE change.new - 1, 2)
                    ELSE Skip(3)
       [] pc = 2 -> IF v[m] = 0 THEN RaiseStmt("ZeroDivisionError")
                    ELSE Set(d, RatDivInt(v[l], v[m]), 3)
       [] pc = 3 -> IF change.name = d /\ RatMulInt(change.new, v[m]) # v[l]
                    THEN Set(l, RatMulInt(change.new, v[m]), 4)
                    ELSE Skip(4)
       [] pc = 4 -> IF change.name # l THEN Skip(5)
                    ELSE IF v[m] = 0 THEN RaiseStmt("ZeroDivisionError")
                    ELSE IF RatDivInt(change.new, v[m]) # v[d]
                         THEN Set(d, RatDivInt(change.new, v[m]), 5)
                         ELSE Skip(5)
       [] pc = 5 -> Return

\* faulty variant of _observe_bc: only the two velocity fields are coupled
_observe_bc_velocity_only(v, change, pc) ==
  LET dim == AxisOf[change.name]
      F   == BCFields(dim)
  IN CASE pc \in 1..2  -> IF change.new = 0 THEN Set(F[pc], 0, pc + 1) ELSE Skip(6)
       [] pc \in 3..4  -> Skip(pc + 1)
       [] pc = 5       -> Set("_ncl" \o dim, TRUE, 6)
       [] pc \in 6..7  -> IF change.old = 0 /\ change.new # 0
                          THEN Set(F[pc - 5], change.new, pc + 1)
                          ELSE Skip(11)
       [] pc \in 8..9  -> Skip(pc + 1)
       [] pc = 10      -> Set("_ncl" \o dim, FALSE, 11)
       [] pc = 11      -> Return

\* faulty variant of _observe_bc: a nonzero value is broadcast to the four
\* fields whatever the old value was
_observe_bc_always_broadcast(v, change, pc) ==
  LET dim == AxisOf[change.name]
      F   == BCFields(dim)
  IN CASE pc \in 1..4  -> IF change.new = 0 THEN Set(F[pc], 0, pc + 1) ELSE Skip(6)
       [] pc = 5       -> Set("_ncl" \o dim, TRUE, 6)
       [] pc \in 6..9  -> IF change.new # 0
                          THEN Set(F[pc - 5], change.new, pc + 1)
                          ELSE Skip(11)
       [] pc = 10      -> Set("_ncl" \o dim, FALSE, 11)
       [] pc = 11      -> Return

\* statements 1-4 and 6-9 are the two for loops over the four fields
_observe_bc(v, change, pc) ==
  LET dim == AxisOf[change.name]
      F   == BCFields(dim)
  IN CASE pc \in 1..4  -> IF change.new = 0 THEN Set(F[pc], 0, pc + 1) ELSE Skip(6)
       [] pc = 5       -> Set("_ncl" \o dim, TRUE, 6)
       [] pc \in 6..9  -> IF change.old = 0 /\ change.new # 0
                          THEN Set(F[pc - 5], change.new, pc + 1)
                          ELSE Skip(11)
       [] pc = 10      -> Set("_ncl" \o dim, FALSE, 11)
       [] pc = 11      -> Return

\* faulty variant of _observe_periodicity: the point count is not shifted
_observe_periodicity_keep_count(v, change, pc) ==
  LET dim == AxisOf[change.name]
      n   == "n" \o dim
  IN CASE pc = 1 -> Set("_possible_mesh_" \o dim,
                        IF change.new THEN possible_mesh_p ELSE possible_mesh, 2)
       [] pc = 2 -> Set(n, v[n], 3)
       [] pc = 3 -> Return

\* faulty variant of _observe_periodicity: the candidate list is not switched
_observe_periodicity_keep_table(v, change, pc) ==
  LET dim == AxisOf[change.name]
      n   == "n" \o dim
  IN CASE pc = 1 -> Skip(2)
       [] pc = 2 -> Set(n, IF change.new THEN v[n] - 1 ELSE v[n] + 1, 3)
       [] pc = 3 -> Return

\* faulty variant of _observe_periodicity: the axis is always the first one
_observe_periodicity_first_axis(v, change, pc) ==
  LET dim == "x"
      n   == "n" \o dim
  IN CASE pc = 1 -> Set("_possible_mesh_" \o dim,
                        IF change.new THEN possible_mesh_p ELSE possible_mesh, 2)
       [] pc = 2 -> Set(n, IF change.new THEN v[n] - 1 ELSE v[n] + 1, 3)
       [] pc = 3 -> Return

\* tmp is read before _possible_mesh_<dim> is assigned; that trait has no
\* observer, so n<dim> still holds what tmp was computed from at statement 2
_observe_periodicity(v, change, pc) ==
  LET dim == AxisOf[change.name]
      n   == "n" \o dim
  IN CASE pc = 1 -> Set("_possible_mesh_" \o dim,
                        IF change.new THEN possible_mesh_p ELSE possible_mesh, 2)
       [] pc = 2 -> Set(n, IF change.new THEN v[n] - 1 ELSE v[n] + 1, 3)
       [] pc = 3 -> Return

\* try: self.<target> = self.ncores // self.<divisor>
TryDivide(v, target, divisor, next, handler) ==
  Try(IF v[divisor] = 0 THEN RaiseStmt("ZeroDivisionError")
      ELSE Set(target, v.ncores \div v[divisor], next), handler)

\* faulty variant of _observe_2Decomp: a new ncores refreshes the candidate
\* lists and leaves both factors as they are
_observe_2Decomp_keep_factors(v, change, pc) ==
  CASE pc = 1 -> IF change.name = "ncores"
                 THEN Set("_possible_p_row", divisorGenerator(change.new), 2)
                 ELSE Skip(5)
    [] pc = 2 -> Set("_possible_p_col", divisorGenerator(change.new), 9)
    [] pc = 5 -> IF change.name = "p_row" THEN TryDivide(v, "p_col", "p_row", 9, 6)
                 ELSE Skip(7)
    [] pc = 6 -> Set("p_col", 0, 9)
    [] pc = 7 -> IF change.name = "p_col" THEN TryDivide(v, "p_row", "p_col", 9, 8)
                 ELSE Skip(9)
    [] pc = 8 -> Set("p_row", 0, 9)
    [] pc = 9 -> Return

\* _observe_2Decomp: a new ncores resets both factors; a new factor sets its
\* partner to the floor quotient, or to 0 when the division raises
_observe_2Decomp(v, change, pc) ==
  CASE pc = 1 -> IF change.name = "ncores"
                 THEN Set("_possible_p_row", divisorGenerator(change.new), 2)
                 ELSE Skip(5)
    [] pc = 2 -> Set("_possible_p_col", divisorGenerator(change.new), 3)
    [] pc = 3 -> Set("p_row", 0, 4)
    [] pc = 4 -> Set("p_col", 0, 9)
    [] pc = 5 -> IF change.name = "p_row" THEN TryDivide(v, "p_col", "p_row", 9, 6)
                 ELSE Skip(7)
    [] pc = 6 -> Set("p_col", 0, 9)
    [] pc = 7 -> IF change.name = "p_col" THEN TryDivide(v, "p_row", "p_col", 9, 8)
                 ELSE Skip(9)
    [] pc = 8 -> Set("p_row", 0, 9)
    [] pc = 9 -> Return

\* the traits declared with .tag(widget=...): none
WidgetTagged == {}

\* self.trait_metadata(name, "widget").disabled = ...; trait_metadata returns
\* None for a trait without that tag and the attribute assignment then raises
SetWidgetDisabled(name, next) ==
  IF name \notin WidgetTagged THEN RaiseStmt("AttributeError") ELSE Skip(next)

_observe_ilesmod(v, change, pc) ==
  CASE pc = 1 -> IF change.new = 0 THEN Set("nu0nu", <<4, 1>>, 2) ELSE Skip(7)
    [] pc = 2 -> Set("cnu", <<11, 25>>, 3)
    [] pc = 3 -> Set("isecondder", 4, 4)
    [] pc = 4 -> SetWidgetDisabled("nu0nu", 5)
    [] pc = 5 -> SetWidgetDisabled("cnu", 6)
    [] pc = 6 -> SetWidgetDisabled("isecondder", 10)
    [] pc = 7 -> SetWidgetDisabled("nu0nu", 8)
    [] pc = 8 -> SetWidgetDisabled("cnu", 9)
    [] pc = 9 -> SetWidgetDisabled("isecondder", 10)
    [] pc = 10 -> Return

_observe_numscalar(v, change, pc) ==
  CASE pc = 1 -> Set("_iscalar", change.new = 0, 2)
    [] pc = 2 -> Return

\* prec = 4 if param["mytype"] == np.float32 else 8, with the package's float64
Prec == 8

Units == <<"bytes", "KB", "MB", "GB", "TB">>

\* "%3.1f" of mag / 1000^k: the value in tenths, rounded to nearest (ties to even)
Tenths(mag, k) ==
  LET t     == BigMul(mag, 10)
      low   == BigTrim(SubSeq(t, 1, IF k < Len(t) THEN k ELSE Len(t)))
      q     == SubSeq(t, k + 1, Len(t))
      half  == [i \in 1..(k + 1) |-> IF i = k + 1 THEN 1 ELSE 0]
      twice == BigMul(low, 2)
      up    == \/ BigLess(half, twice)
               \/ twice = half /\ q # <<>> /\ q[1] % 2 = 1
  IN IF k = 0 THEN t ELSE IF up THEN BigAdd(q, <<1>>) ELSE q

\* convert_bytes(num): the text, or None when no unit is left
convert_bytes(num) ==
  LET k == IF num.neg \/ Len(num.mag) <= 1 THEN 0 ELSE Len(num.mag) - 1
  IN IF k >= Len(Units) THEN NoneText
     ELSE [unit |-> Units[k + 1], neg |-> num.neg, tenths |-> Tenths(num.mag, k)]

\* the product of the small naturals in fs, times the natural big
RECURSIVE BigProduct(_, _)
BigProduct(big, fs) ==
  IF fs = <<>> THEN big ELSE BigProduct(BigMul(big, Head(fs)), Tail(fs))

Pos(mag) == [neg |-> FALSE, mag |-> mag]

\* the byte count _observe_size computes from the trait values v
SizeCount(v) ==
  LET count0  == 3 + v.numscalar
      count1  == IF v.itimescheme \in {3, 7} THEN count0 * 3
                 ELSE IF v.itimescheme = 2 THEN count0 * 2
                 ELSE count0
      count2  == count1 + 1
      q       == (v.ilast \div v.icheckpoint) - 1
      restart == [neg |-> q < 0,
                  mag |-> BigProduct(BigFromInt(Abs(q)),
                                     <<v.nx, v.ny, v.nz, Prec, count2>>)]
      visu    == BigDiv(BigProduct(BigFromInt(v.ilast),
                                   <<4 + v.numscalar, v.nx, v.ny, v.nz, Prec>>),
                        v.ioutput)
      xy      == BigDiv(BigProduct(BigFromInt(v.ilast),
                                   <<2, 3 + v.numscalar, v.nx, v.ny, Prec>>),
                        v.iprocessing)
      xz      == BigDiv(BigProduct(BigFromInt(v.ilast),
                                   <<3, 3 + v.numscalar, v.nx, v.nz, Prec>>),
                        v.iprocessing)
      c3d     == SignedAdd(restart, Pos(visu))
  IN IF v.itype = 10 THEN SignedAdd(SignedAdd(c3d, Pos(xy)), Pos(xz)) ELSE c3d

_observe_size(v, change, pc) ==
  CASE pc = 1 -> Set("size", convert_bytes(SizeCount(v)), 2)
    [] pc = 2 -> Return

\* the @traitlets.observe callbacks of a trait, in the order they are called
Observers(name) ==
  IF name \in {"nx", "ny", "nz"} THEN <<"_observe_resolution", "_observe_size">>
  ELSE IF name \in {"dx", "dy", "dz", "xlx", "yly", "zlz"} THEN <<"_observe_resolution">>
  ELSE IF name \in {"_nclx", "_ncly", "_nclz"} THEN <<"_observe_periodicity">>
  ELSE IF name \in {"p_row", "p_col", "ncores"} THEN <<"_observe_2Decomp">>
  ELSE IF name = "ilesmod" THEN <<"_observe_ilesmod">>
  ELSE IF name = "numscalar" THEN <<"_observe_numscalar", "_observe_size">>
  ELSE IF name \in {"nvisu", "icheckpoint", "ioutput", "iprocessing", "ilast"}
       THEN <<"_observe_size">>
  ELSE IF name \in BCNames THEN <<"_observe_bc">>
  ELSE <<>>

\* HasTraits.notify_change: every observer of the trait is called, in order
notify_change(v, change, pc) ==
  IF pc <= Len(Observers(change.name))
  THEN Call(Observers(change.name)[pc], change, pc + 1)
  ELSE Return

(***************************************************************************)
(* load(): the parsed mapping is a sequence of <<key, value>> in file      *)
(* order.                                                                  *)
(***************************************************************************)
\* self.trait_names(): traitlets lists the traits sorted by name
trait_names ==
  << "_iscalar", "_mx", "_my", "_mz", "_nclx", "_ncly", "_nclz",
     "_possible_mesh_x", "_possible_mesh_y", "_possible_mesh_z",
     "_possible_p_col", "_possible_p_row", "beta", "cnu", "cp", "dt", "dx", "dy",
     "dz", "filename", "gravx", "gravy", "gravz", "icheckpoint", "ifilenameformat",
     "ifirst", "ifirstder", "iibm", "iibmS", "iin", "ilast", "ilesmod",
     "inflow_noise", "init_noise", "ioutput", "ipinter", "ipost", "iprocessing",
     "irestart", "isecondder", "istret", "itimescheme", "itype", "ivisu", "jles",
     "nclx1", "nclxS1", "nclxSn", "nclxn", "ncly1", "nclyS1", "nclySn", "nclyn",
     "nclz1", "nclzS1", "nclzSn", "nclzn", "ncores", "nobjmax", "nraf", "nu0nu",
     "numscalar", "nvisu", "nx", "ny", "nz", "p_col", "p_row", "re", "ri", "sc",
     "scalar_lbound", "scalar_ubound", "size", "uset", "xlx", "yly", "zlz" >>

\* the groups of __repr__'s dictionary, in the order their first trait is met
RECURSIVE ReprGroups(_, _)
ReprGroups(i, seen) ==
  IF i > Len(trait_names) THEN seen
  ELSE LET name == trait_names[i]
       IN IF name \in GroupedTraits /\ \A j \in 1..Len(seen) : seen[j] # Group[name]
          THEN ReprGroups(i + 1, Append(seen, Group[name]))
          ELSE ReprGroups(i + 1, seen)

\* the names __repr__ writes, block after block
RECURSIVE ReprNames(_, _)
ReprNames(groups, i) ==
  IF i > Len(groups) THEN <<>>
  ELSE LET InBlock(name) == name \in GroupedTraits /\ Group[name] = groups[i]
       IN SelectSeq(trait_names, InBlock) \o ReprNames(groups, i + 1)

\* the names of __repr__'s dictionary, in the order it is written
ReprOrder == ReprNames(ReprGroups(1, <<>>), 1)

\* the mapping the text of __repr__ holds: every grouped trait with its value
ReprMapping(v) == [i \in 1..Len(ReprOrder) |-> <<ReprOrder[i], v[ReprOrder[i]]>>]

\* the traits declared traitlets.List that carry a group
ListTraits == {"sc", "ri", "uset", "cp", "scalar_lbound", "scalar_ubound"}

\* the block keys of __repr__'s dictionary, in the order it writes them
ReprBlocks == ReprGroups(1, <<>>)

\* dictionary[blockkey]: the names of one block, in trait_names order
ReprBlock(blockkey) ==
  LET InBlock(name) == name \in GroupedTraits /\ Group[name] = blockkey
  IN SelectSeq(trait_names, InBlock)

\* faulty variant of ReprLines: a list is written as one entry
ReprLines_one_entry(paramkey, param) ==
  << [key |-> paramkey, index |-> 0, value |-> param] >>

\* the lines __repr__ writes for one parameter: "key(n) = p" for each element
\* of a list, n from 1, and "key = param" otherwise (index 0)
ReprLines(paramkey, param) ==
  IF paramkey \in ListTraits
  THEN [n \in 1..Len(param) |-> [key |-> paramkey, index |-> n, value |-> param[n]]]
  ELSE << [key |-> paramkey, index |-> 0, value |-> param] >>

\* __repr__(): the text, block after block: "&blockkey", the lines of each
\* parameter of the block, "/End"
__repr__(v) ==
  [b \in 1..Len(ReprBlocks) |->
     [ blockkey |-> ReprBlocks[b],
       params   |-> [i \in 1..Len(ReprBlock(ReprBlocks[b])) |->
                       ReprLines(ReprBlock(ReprBlocks[b])[i],
                                 v[ReprBlock(ReprBlocks[b])[i]])] ]]

HasKey(dictionary, key) == \E i \in 1..Len(dictionary) : dictionary[i][1] = key

Lookup(dictionary, key) ==
  dictionary[CHOOSE i \in 1..Len(dictionary) :
               /\ dictionary[i][1] = key
               /\ \A j \in (i + 1)..Len(dictionary) : dictionary[j][1] # key][2]

BCFirst == <<"nclx1", "nclxn", "ncly1", "nclyn", "nclz1", "nclzn">>

\* the index of the last "." of name at or before i, 0 when there is none
RECURSIVE LastDot(_, _)
LastDot(name, i) ==
  IF i = 0 THEN 0
  ELSE IF SubSeq(name, i, i) = "." THEN i
  ELSE LastDot(name, i - 1)

\* name.split(".")[-1]
Extension(name) == SubSeq(name, LastDot(name, Len(name)) + 1, Len(name))

\* faulty variant of load: a key that is no trait is not caught
load_unknown_fatal(v, dictionary, pc) ==
  IF pc = 1
  THEN IF Extension(v.filename) \in {"i3d", "prm"} THEN Skip(2) ELSE RaiseStmt("IOError")
  ELSE IF pc <= 1 + Len(BCFirst)
  THEN IF HasKey(dictionary, BCFirst[pc - 1])
       THEN Set(BCFirst[pc - 1], Lookup(dictionary, BCFirst[pc - 1]), pc + 1)
       ELSE Skip(pc + 1)
  ELSE IF pc > 1 + Len(BCFirst) + 2 * Len(dictionary) THEN Return
  ELSE LET i   == (pc - Len(BCFirst)) \div 2
           key == dictionary[i][1]
       IN IF (pc - 1 - Len(BCFirst)) % 2 = 0 THEN Warn(key, pc + 1)
          ELSE IF key \notin TraitNames THEN RaiseStmt("TraitError")
          ELSE Try(IF key \in GroupedTraits
                   THEN Set(key, Lookup(dictionary, key), pc + 2)
                   ELSE Skip(pc + 2),
                   pc + 1)

\* faulty variant of load: the assignment of a grouped key is outside the try
load_invalid_fatal(v, dictionary, pc) ==
  IF pc = 1
  THEN IF Extension(v.filename) \in {"i3d", "prm"} THEN Skip(2) ELSE RaiseStmt("IOError")
  ELSE IF pc <= 1 + Len(BCFirst)
  THEN IF HasKey(dictionary, BCFirst[pc - 1])
       THEN Set(BCFirst[pc - 1], Lookup(dictionary, BCFirst[pc - 1]), pc + 1)
       ELSE Skip(pc + 1)
  ELSE IF pc > 1 + Len(BCFirst) + 2 * Len(dictionary) THEN Return
  ELSE LET i   == (pc - Len(BCFirst)) \div 2
           key == dictionary[i][1]
       IN IF (pc - 1 - Len(BCFirst)) % 2 = 0 THEN Warn(key, pc + 1)
          ELSE IF key \in GroupedTraits
          THEN Set(key, Lookup(dictionary, key), pc + 2)
          ELSE Try(IF key \notin TraitNames THEN RaiseStmt("TraitError")
                   ELSE Skip(pc + 2),
                   pc + 1)

\* load(), with dictionary what i3d_to_dict or prm_to_dict returns for the file:
\* statement 1 is the test of the extension, statements 2-7 are the loop over
\* the boundary conditions; item i of the mapping has the try at statement
\* 6 + 2i and its except clause at 7 + 2i
load(v, dictionary, pc) ==
  IF pc = 1
  THEN IF Extension(v.filename) \in {"i3d", "prm"} THEN Skip(2) ELSE RaiseStmt("IOError")
  ELSE IF pc <= 1 + Len(BCFirst)
  THEN IF HasKey(dictionary, BCFirst[pc - 1])
       THEN Set(BCFirst[pc - 1], Lookup(dictionary, BCFirst[pc - 1]), pc + 1)
       ELSE Skip(pc + 1)
  ELSE IF pc > 1 + Len(BCFirst) + 2 * Len(dictionary) THEN Return
  ELSE LET i   == (pc - Len(BCFirst)) \div 2
           key == dictionary[i][1]
       IN IF (pc - 1 - Len(BCFirst)) % 2 = 0 THEN Warn(key, pc + 1)
          ELSE Try(IF key \notin TraitNames THEN RaiseStmt("TraitError")
                   ELSE IF key \in GroupedTraits
                        THEN Set(key, Lookup(dictionary, key), pc + 2)
                        ELSE Skip(pc + 2),
                   pc + 1)

\* faulty variant of write: the legacy extension is written as well
write_legacy_too(v, arg, pc) ==
  CASE pc = 1 -> IF Extension(v.filename) \in {"i3d", "prm"}
                 THEN WriteFile(v.filename, __repr__(v), 2)
                 ELSE RaiseStmt("NameError")
    [] pc = 2 -> Return

\* write(): the text written is __repr__'s; the
\* else branch calls the undefined name filename, which raises NameError
write(v, arg, pc) ==
  CASE pc = 1 -> IF Extension(v.filename) = "i3d"
                 THEN WriteFile(v.filename, __repr__(v), 2)
                 ELSE RaiseStmt("NameError")
    [] pc = 2 -> Return

\* __init__(**kwargs) for keywords other than loadfile, after
\* super().__init__(): statements 1-6 are the loop over the boundary
\* conditions; keyword i has the membership test at statement 5 + 2i and the
\* setattr at 6 + 2i, which for a name that is no trait creates a plain
\* attribute
__init__(v, kwargs, pc) ==
  IF pc <= Len(BCFirst)
  THEN IF HasKey(kwargs, BCFirst[pc])
       THEN Set(BCFirst[pc], Lookup(kwargs, BCFirst[pc]), pc + 1)
       ELSE Skip(pc + 1)
  ELSE IF pc > Len(BCFirst) + 2 * Len(kwargs) THEN Return
  ELSE LET i   == (pc - Len(BCFirst) + 1) \div 2
           key == kwargs[i][1]
       IN IF (pc - Len(BCFirst)) % 2 = 1
          THEN IF key \notin TraitNames THEN Warn(key, pc + 1) ELSE Skip(pc + 1)
          ELSE IF key \in TraitNames THEN Set(key, kwargs[i][2], pc + 1)
               ELSE Skip(pc + 1)

(***************************************************************************)
(* Execution.  A machine state m is [v, exc, fired, stack, warn, out]: the *)
(* trait values, the exception in flight ("none" when there is none), the  *)
(* number of observer callbacks called so far, the call stack (the running *)
(* method last), the keys warned about and the files written.  A frame is  *)
(* [cb, arg, pc, catch]: the method, its argument, its next statement and  *)
(* the except clause guarding the statement in progress.                   *)
(***************************************************************************)
Machine(v) ==
  [v |-> v, exc |-> "none", fired |-> 0, stack |-> <<>>, warn |-> <<>>, out |-> <<>>]

Raise(m, e) == [m EXCEPT !.exc = e]

\* the statement the frame is at
Body(frame, v) ==
  CASE frame.cb = "_observe_resolution"  -> _observe_resolution(v, frame.arg, frame.pc)
    [] frame.cb = "_observe_bc"          -> _observe_bc(v, frame.arg, frame.pc)
    [] frame.cb = "_observe_periodicity" -> _observe_periodicity(v, frame.arg, frame.pc)
    [] frame.cb = "_observe_2Decomp"     -> _observe_2Decomp(v, frame.arg, frame.pc)
    [] frame.cb = "_observe_ilesmod"     -> _observe_ilesmod(v, frame.arg, frame.pc)
    [] frame.cb = "_observe_numscalar"   -> _observe_numscalar(v, frame.arg, frame.pc)
    [] frame.cb = "_observe_size"        -> _observe_size(v, frame.arg, frame.pc)
    [] frame.cb = "notify_change"        -> notify_change(v, frame.arg, frame.pc)
    [] frame.cb = "load"                 -> load(v, frame.arg, frame.pc)
    [] frame.cb = "write"                -> write(v, frame.arg, frame.pc)
    [] frame.cb = "__init__"             -> __init__(v, frame.arg, frame.pc)

\* a call: a new frame, unless the stack is MaxDepth frames deep already
Enter(m, cb, arg) ==
  IF Len(m.stack) >= MaxDepth THEN Raise(m, "RecursionError")
  ELSE [m EXCEPT !.stack = Append(@, [cb |-> cb, arg |-> arg, pc |-> 1, catch |-> 0])]

\* the @traitlets.validate hook of nx, ny, nz: _validade_mesh_nx/_ny/_nz
CrossValidate(m, name, value) ==
  IF name \in {"nx", "ny", "nz"}
  THEN _validate_mesh(value, m.v["_ncl" \o AxisOf[name]])
  ELSE "ok"

\* faulty variant of SetAttr: the value is stored before it is validated
SetAttr_store_first(m, name, value) ==
  IF ~BoundsOK(name, value) \/ CrossValidate(m, name, value) # "ok"
  THEN Raise([m EXCEPT !.v[name] = value], "TraitError")
  ELSE IF m.v[name] = value THEN m
  ELSE Enter([m EXCEPT !.v[name] = value], "notify_change",
             [name |-> name, old |-> m.v[name], new |-> value])

\* faulty variant of SetAttr: the observers are notified of every assignment,
\* changed or not
SetAttr_notify_always(m, name, value) ==
  IF ~BoundsOK(name, value) THEN Raise(m, "TraitError")
  ELSE IF CrossValidate(m, name, value) # "ok" THEN Raise(m, "TraitError")
  ELSE Enter([m EXCEPT !.v[name] = value], "notify_change",
             [name |-> name, old |-> m.v[name], new |-> value])

\* self.<name> = value: validate, store, and notify when the value changed
SetAttr(m, name, value) ==
  IF ~BoundsOK(name, value) THEN Raise(m, "TraitError")
  ELSE IF CrossValidate(m, name, value) # "ok" THEN Raise(m, "TraitError")
  ELSE IF m.v[name] = value THEN m
  ELSE Enter([m EXCEPT !.v[name] = value], "notify_change",
             [name |-> name, old |-> m.v[name], new |-> value])

\* the statement st executed by the frame top, the frames below it being rest
Execute(m, top, rest, st) ==
  LET m1 == [m EXCEPT !.stack = Append(rest, [top EXCEPT !.pc = st.next,
                                                         !.catch = st.catch])]
  IN CASE st.kind = "return" -> [m EXCEPT !.stack = rest]
       [] st.kind = "skip"   -> m1
       [] st.kind = "raise"  -> Raise(m1, st.name)
       [] st.kind = "warn"   -> [m1 EXCEPT !.warn = Append(@, st.name)]
       [] st.kind = "write"  -> [m1 EXCEPT !.out = Append(@, [name |-> st.name,
                                                              content |-> st.value])]
       [] st.kind = "set"    -> SetAttr(m1, st.name, st.value)
       [] st.kind = "call"   -> Enter([m1 EXCEPT !.fired = @ + 1], st.name, st.value)

\* one step of the running method: an exception in flight resumes at the
\* except clause of the frame or leaves the frame; otherwise the statement
\* at pc is executed
Step(m) ==
  LET top  == m.stack[Len(m.stack)]
      rest == SubSeq(m.stack, 1, Len(m.stack) - 1)
  IN IF m.exc # "none"
     THEN IF top.catch # 0
          THEN [m EXCEPT !.exc = "none",
                         !.stack = Append(rest, [top EXCEPT !.pc = top.catch,
                                                            !.catch = 0])]
          ELSE [m EXCEPT !.stack = rest]
     ELSE Execute(m, top, rest, Body(top, m.v))

\* at most 2^k statements of m
RECURSIVE RunSome(_, _)
RunSome(m, k) ==
  IF m.stack = <<>> THEN m
  ELSE IF k = 0 THEN Step(m)
  ELSE LET half == RunSome(m, k - 1)
       IN RunSome(half, k - 1)

\* the call runs until its last frame has returned or been left; the
\* statements are taken 64 at a time, which keeps the nesting of the
\* evaluation shallow and changes no result
RECURSIVE Run(_)
Run(m) == IF m.stack = <<>> THEN m ELSE Run(RunSome(m, 6))

(***************************************************************************)
(* The state machine: calls made on one Parameters instance.               *)
(***************************************************************************)
\* the int assignments tried: in and out of bounds, feasible and infeasible
IntInputs ==
  ({"nx"} \X {8, 9, 10})
    \cup {<<"ny", 9>>, <<"nz", 8>>}
    \cup ({"nclx1"} \X {0, 1, 2, 3})
    \cup ({"nclxn", "nclxS1", "nclxSn", "nclzn"} \X {0, 1})
    \cup {<<"ncly1", 0>>}
    \cup ({"ncores"} \X {0, 5, 8})
    \cup ({"p_row"} \X {0, 2, 5})
    \cup ({"p_col"} \X {0, 2})
    \cup ({"ilesmod"} \X {0, 1})
    \cup ({"numscalar"} \X {1, 10})
    \cup {<<"ilast", 2000000000>>, <<"icheckpoint", 1>>, <<"itype", 1>>}

\* the float assignments tried
FloatInputs ==
  ({"xlx"} \X {<<2, 1>>, <<-1, 1>>})
    \cup {<<"dx", <<1, 4>>>>, <<"dz", <<1, 4>>>>,
          <<"nu0nu", <<5, 1>>>>, <<"re", <<300, 1>>>>}

Init ==
  /\ prm = Default
  /\ raised = "none"
  /\ pre = Default
  /\ call = [op |-> "init", name |-> "", value |-> 0]
  /\ fired = 0
  /\ warned = <<>>
  /\ saved = <<>>
  /\ steps = 0
  /\ clean = TRUE
  /\ built = <<>>
  /\ mesh_n = Default.nx
  /\ mesh_ncl = FALSE
  /\ mesh_out = "unset"
  /\ div_n = Default.ncores
  /\ div_out = <<"unset">>

\* the outcome r of a call becomes the state; n counts the assignments made
Finish(r, c, n) ==
  /\ prm' = r.v
  /\ raised' = r.exc
  /\ pre' = prm
  /\ call' = c
  /\ fired' = r.fired
  /\ warned' = r.warn
  /\ saved' = r.out
  /\ steps' = n
  /\ UNCHANGED <<mesh_n, mesh_ncl, mesh_out, div_n, div_out>>

\* the call c has run to r, and clean stays true if it has not raised
Outcome(r, c, n) ==
  /\ Finish(r, c, n)
  /\ clean' = (clean /\ r.exc = "none")

\* prm.<name> = value, as one of at most limit assignments
Assign(name, value, limit) ==
  /\ steps < limit
  /\ Outcome(Run(SetAttr(Machine(prm), name, value)),
             [op |-> "set", name |-> name, value |-> value], steps + 1)
  /\ UNCHANGED built

SetInt == \E p \in IntInputs : Assign(p[1], p[2], MaxSteps)

SetFloat == \E p \in FloatInputs : Assign(p[1], p[2], MaxSteps)

\* prm.write(), then prm = Parameters(loadfile=prm.filename): what load() reads
\* is what __repr__ wrote; taken once after an assignment
RoundTrip ==
  /\ call.op = "set"
  /\ Finish(Run(Enter(Machine([Default EXCEPT !.filename = prm.filename]),
                       "load", ReprMapping(prm))),
            [op |-> "roundtrip", name |-> "", value |-> 0], steps)
  /\ UNCHANGED <<clean, built>>

Next == SetInt \/ SetFloat \/ RoundTrip

Spec == Init /\ [][Next]_vars

(***************************************************************************)
(* _validate_mesh on its own.                                              *)
(***************************************************************************)
InitMesh ==
  /\ prm = Default
  /\ raised = "none"
  /\ pre = Default
  /\ call = [op |-> "init", name |-> "", value |-> 0]
  /\ fired = 0
  /\ warned = <<>>
  /\ saved = <<>>
  /\ steps = 0
  /\ clean = TRUE
  /\ built = <<>>
  /\ mesh_n \in (0 - MaxMeshN)..MaxMeshN
  /\ mesh_ncl \in BOOLEAN
  /\ mesh_out = "unset"
  /\ div_n = Default.ncores
  /\ div_out = <<"unset">>

ValidateMesh ==
  /\ mesh_out = "unset"
  /\ mesh_out' = _validate_mesh(mesh_n, mesh_ncl)
  /\ UNCHANGED <<prm, raised, pre, call, fired, warned, saved, steps, clean, built,
                 mesh_n, mesh_ncl, div_n, div_out>>

NextMesh == ValidateMesh

SpecMesh == InitMesh /\ [][NextMesh]_vars

(***************************************************************************)
(* divisorGenerator on its own.                                            *)
(***************************************************************************)
InitDiv ==
  /\ prm = Default
  /\ raised = "none"
  /\ pre = Default
  /\ call = [op |-> "init", name |-> "", value |-> 0]
  /\ fired = 0
  /\ warned = <<>>
  /\ saved = <<>>
  /\ steps = 0
  /\ clean = TRUE
  /\ built = <<>>
  /\ mesh_n = Default.nx
  /\ mesh_ncl = FALSE
  /\ mesh_out = "unset"
  /\ div_n \in 1..MaxDivN
  /\ div_out = <<"unset">>

\* list(divisorGenerator(div_n))
ListDivisors ==
  /\ div_out = <<"unset">>
  /\ div_out' = <<"list", divisorGenerator(div_n)>>
  /\ UNCHANGED <<prm, raised, pre, call, fired, warned, saved, steps, clean, built,
                 mesh_n, mesh_ncl, mesh_out, div_n>>

NextDiv == ListDivisors

SpecDiv == InitDiv /\ [][NextDiv]_vars

(***************************************************************************)
(* Calls restricted to one group of traits.                                *)
(***************************************************************************)
TriadNames == {"nx", "ny", "nz", "dx", "dy", "dz", "xlx", "yly", "zlz"}

DecompNames == {"ncores", "p_row", "p_col"}

SetTriadInt == \E p \in IntInputs : p[1] \in TriadNames /\ Assign(p[1], p[2], MaxGroupSteps)

SetTriadFloat == \E p \in FloatInputs : p[1] \in TriadNames /\ Assign(p[1], p[2], MaxGroupSteps)

NextTriad == SetTriadInt \/ SetTriadFloat

\* only the point counts, resolutions and domain lengths are assigned
SpecTriad == Init /\ [][NextTriad]_vars

\* further values tried when only ncores, p_row and p_col are assigned
DecompInputs == {<<"p_row", 3>>, <<"p_col", 1>>, <<"p_col", 4>>}

SetDecomp ==
  \E p \in IntInputs \cup DecompInputs :
    p[1] \in DecompNames /\ Assign(p[1], p[2], MaxGroupSteps)

NextDecomp == SetDecomp

\* only ncores, p_row and p_col are assigned
SpecDecomp == Init /\ [][NextDecomp]_vars

(***************************************************************************)
(* Construction from keywords, load of a mapping, write, and the           *)
(* assignments that go with them.                                          *)
(***************************************************************************)

\* keyword overrides, in the order the call gives them
KwInputs ==
  { << <<"nx", 181>>, <<"xlx", Rat(18, 1)>> >>,
    << <<"xlx", Rat(18, 1)>>, <<"nx", 181>> >>,
    << <<"nx", 17>>, <<"xlx", Rat(18, 1)>> >>,
    << <<"nx", 16>>, <<"nclx1", 0>> >>,
    << <<"nx", 16>>, <<"nclxS1", 0>> >>,
    << <<"nclxS1", 0>>, <<"nx", 16>> >>,
    << <<"C_filter", Rat(49, 100)>>, <<"nx", 9>>, <<"ilist", 25>> >> }

\* the mapping of the parameters file of the test suite
prm_file ==
  << <<"itype", 1>>, <<"C_filter", Rat(49, 100)>>, <<"p_row", 0>>, <<"p_col", 0>>,
     <<"nx", 181>>, <<"ny", 29>>, <<"nz", 27>>, <<"istret", 0>>,
     <<"beta", Rat(259065151, 1000000000)>>,
     <<"xlx", Rat(18, 1)>>, <<"yly", Rat(2, 1)>>, <<"zlz", Rat(2, 1)>>,
     <<"gravx", Zero>>, <<"gravy", Rat(-1, 1)>>, <<"gravz", Zero>>,
     <<"nclx1", 1>>, <<"nclxn", 1>>, <<"ncly1", 2>>, <<"nclyn", 1>>,
     <<"nclz1", 1>>, <<"nclzn", 1>>,
     <<"iin", 1>>, <<"re", Rat(2236, 1)>>, <<"init_noise", Rat(1, 100)>>,
     <<"inflow_noise", Zero>>, <<"dt", Rat(48, 10000)>>,
     <<"ifirst", 1>>, <<"ilast", 100000>>, <<"ilesmod", 0>>, <<"numscalar", 0>>,
     <<"iibm", 0>>, <<"ilmn", TRUE>>, <<"ivisu", 1>>, <<"ipost", 1>>,
     <<"ifirstder", 4>>, <<"isecondder", 5>>, <<"ipinter", 3>>,
     <<"itimescheme", 2>>, <<"nu0nu", Rat(4, 1)>>, <<"cnu", Rat(44, 100)>>,
     <<"sc", <<One>> >>, <<"ri", <<One>> >>, <<"uset", <<Rat(2, 100)>> >>,
     <<"cp", <<One>> >>,
     <<"irestart", 0>>, <<"icheckpoint", 5000>>, <<"ioutput", 1667>>,
     <<"ilist", 25>>, <<"nvisu", 1>>, <<"iprocessing", 20>> >>

\* mappings a parameters file is parsed to, in the order of the file
LoadInputs ==
  { << <<"nclx1", 0>>, <<"nclxn", 1>> >>,
    << <<"nx", 16>>, <<"nclx1", 0>> >>,
    << <<"nx", 16>>, <<"nclxS1", 0>> >>,
    << <<"nx", 9>>, <<"ilmn", TRUE>>, <<"ny", 9>> >>,
    << <<"numscalar", 2>>, <<"sc", <<One, Rat(1, 2)>> >> >>,
    << <<"numscalar", 10>>, <<"nx", 16>>, <<"ny", 9>>, <<"ilast", 500>> >>,
    prm_file }

\* file names: primary, legacy, another extension, none
NameInputs == {"input.i3d", "input.prm", "input.dat", "input"}

\* prm = Parameters(**kwargs)
Construct ==
  /\ call.op = "init"
  /\ \E kwargs \in KwInputs :
       /\ Outcome(Run(Enter(Machine(Default), "__init__", kwargs)),
                  [op |-> "construct", name |-> "", value |-> kwargs], steps + 1)
       /\ built' = kwargs

\* prm.load(), the file at prm.filename holding the mapping dictionary
Load ==
  /\ steps < MaxBulkSteps
  /\ \E dictionary \in LoadInputs :
       Outcome(Run(Enter(Machine(prm), "load", dictionary)),
               [op |-> "load", name |-> "", value |-> dictionary], steps + 1)
  /\ UNCHANGED built

\* prm.write()
Write ==
  /\ steps < MaxBulkSteps
  /\ Outcome(Run(Enter(Machine(prm), "write", 0)),
             [op |-> "write", name |-> "", value |-> 0], steps + 1)
  /\ UNCHANGED built

\* prm.filename = name
SetName == \E name \in NameInputs : Assign("filename", name, MaxBulkSteps)

\* prm.dx = value
SetSpacing == \E value \in {Rat(1, 5)} : Assign("dx", value, MaxBulkSteps)

NextBulk == Construct \/ Load \/ Write \/ SetName \/ SetSpacing

SpecBulk == Init /\ [][NextBulk]_vars


(***************************************************************************)
(* What the claims are stated with.                                        *)
(***************************************************************************)
IsPrime(p) == p > 1 /\ \A k \in 2..(p - 1) : p % k # 0

\* m = 2^a * 3^b * 5^c with a >= 1: m is even and has no other prime factor
Smooth(m) ==
  /\ m >= 2
  /\ m % 2 = 0
  /\ \A p \in 6..m : m % p = 0 => ~IsPrime(p)

\* n is a feasible point count for an axis of that periodicity
Feasible(n, periodic) ==
  IF periodic THEN n >= 8 /\ Smooth(n) ELSE n >= 9 /\ Smooth(n - 1)

\* the last call was the assignment of a trait
WasSet == call.op = "set"

\* the four boundary-condition fields of axis d are all 0
AllPeriodic(v, d) == \A i \in 1..4 : v[BCFields(d)[i]] = 0

\* none of the four boundary-condition fields of axis d is 0
NonePeriodic(v, d) == \A i \in 1..4 : v[BCFields(d)[i]] # 0

\* the number of intervals the resolution of axis d is meant to span
Intervals(v, d) == IF v["_ncl" \o d] THEN v["n" \o d] ELSE v["n" \o d] - 1

\* validation has to refuse the assignment name := value in the state v
Refused(v, name, value) ==
  \/ ~BoundsOK(name, value)
  \/ name \in {"nx", "ny", "nz"} /\ ~Feasible(value, v["_ncl" \o AxisOf[name]])

(***************************************************************************)
(* The claims.                                                             *)
(***************************************************************************)
\* C1 (as claimed): after any sequence of successful assignments to the point counts, the
\* resolutions and the domain lengths, on every axis resolution * (point_count - 1)
\* equals domain_length when the axis is non-periodic and resolution * point_count
\* equals domain_length when it is periodic.
C1_ResolutionTriad ==
  clean =>
    \A d \in Axes : RatMulInt(prm["d" \o d], Intervals(prm, d)) = prm[d \o "l" \o d]

\* C2: on every axis the four boundary-condition fields are either all 0 with the
\* periodicity flag True or all nonzero with the flag False, and assigning 0 to
\* one of the four leaves all four 0 and the axis marked periodic.
C2_BoundaryCoupling ==
  /\ \A d \in Axes :
       \/ AllPeriodic(prm, d) /\ prm["_ncl" \o d] = TRUE
       \/ NonePeriodic(prm, d) /\ prm["_ncl" \o d] = FALSE
  /\ (WasSet /\ call.name \in BCNames /\ call.value = 0)
       => AllPeriodic(prm, AxisOf[call.name]) /\ prm["_ncl" \o AxisOf[call.name]]

\* C2 witness: 0 was assigned to a scalar field of the non-periodic x axis, and the
\* velocity fields followed.
C2_Witness ==
  /\ WasSet /\ call.name = "nclxSn" /\ call.value = 0 /\ raised = "none"
  /\ pre.nclx1 # 0 /\ ~pre._nclx
  /\ prm.nclx1 = 0 /\ prm.nclxn = 0 /\ prm.nclxS1 = 0 /\ prm._nclx

\* C3: in every reachable state each of nx, ny, nz is a feasible point count for
\* the current periodicity of its axis: periodic => n >= 8 and n = 2^a*3^b*5^c with
\* a >= 1; non-periodic => n >= 9 and n-1 of that form.
C3_FeasiblePointCounts ==
  \A d \in Axes : Feasible(prm["n" \o d], prm["_ncl" \o d])

\* C3 witness: a boundary-condition assignment has just switched the periodicity
\* of its axis.
C3_Witness ==
  /\ WasSet /\ call.name \in BCNames /\ raised = "none"
  /\ pre["_ncl" \o AxisOf[call.name]] # prm["_ncl" \o AxisOf[call.name]]
  /\ pre["n" \o AxisOf[call.name]] # prm["n" \o AxisOf[call.name]]

\* C4 (as claimed): after any sequence of assignments to ncores, p_row and p_col,
\* whenever p_row and p_col are both nonzero, p_row * p_col = ncores.
C4_DecompositionProduct ==
  (prm.p_row # 0 /\ prm.p_col # 0) => prm.p_row * prm.p_col = prm.ncores

\* C5: the validator accepts n iff n >= (8 if periodic else 9) and
\* m = (n if periodic else n-1) is 2^a*3^b*5^c with a >= 1; periodic 8, 100, 1024
\* and 1296 are accepted, 7 and 11 rejected; non-periodic 181 is accepted, 180
\* rejected.
C5_ValidatorResult ==
  mesh_out # "unset" =>
    /\ mesh_out = "ok" <=> Feasible(mesh_n, mesh_ncl)
    /\ (mesh_ncl /\ mesh_n \in {8, 100, 1024, 1296}) => mesh_out = "ok"
    /\ (mesh_ncl /\ mesh_n \in {7, 11}) => mesh_out = "TraitError"
    /\ (~mesh_ncl /\ mesh_n = 181) => mesh_out = "ok"
    /\ (~mesh_ncl /\ mesh_n = 180) => mesh_out = "TraitError"

\* C5 witness: the validator has accepted 1296 = 2^4 * 3^4 on a periodic axis.
C5_Witness == mesh_out = "ok" /\ mesh_ncl /\ mesh_n = 1296

\* C6 (as claimed): an assignment that ends in an error leaves every field with
\* the value it had before the call.
C6_AllOrNothing == (WasSet /\ raised # "none") => prm = pre

\* C7: an assignment whose value violates the field's bounds or, for nx/ny/nz, is
\* an infeasible point count under the axis's current periodicity, raises an error
\* and leaves the assigned field and every other field unchanged.
C7_RefusedKeepsState ==
  (WasSet /\ Refused(pre, call.name, call.value))
    => raised = "TraitError" /\ prm = pre

\* C7 witness: a point count within the bounds of the trait but infeasible for the
\* periodicity of its axis has been refused.
C7_Witness ==
  /\ WasSet /\ call.name = "nx" /\ BoundsOK("nx", call.value)
  /\ ~Feasible(call.value, pre._nclx)
  /\ raised = "TraitError"

\* C8: in every reachable state, assigning any field its current value raises no
\* error and leaves every field unchanged.
C8_IdempotentReassign ==
  \A f \in TraitNames :
    LET r == Run(SetAttr(Machine(prm), f, prm[f]))
    IN r.exc = "none" /\ r.v = prm

\* C8 witness: a field that observers listen to has been assigned the value it
\* already had, and the call returned.
C8_Witness ==
  /\ WasSet /\ Observers(call.name) # <<>>
  /\ call.value = pre[call.name]
  /\ raised = "none"
  /\ steps > 1

C10_RoundTripLaw ==
  (call.op = "roundtrip" /\ clean) => \A f \in GroupedTraits : prm[f] = pre[f]

\* the positive divisors of n in ascending order, each once
RECURSIVE DivisorsUpTo(_, _)
DivisorsUpTo(n, k) ==
  IF k = 0 THEN <<>>
  ELSE IF n % k = 0 THEN Append(DivisorsUpTo(n, k - 1), k)
  ELSE DivisorsUpTo(n, k - 1)

\* C14 (as claimed): for every n >= 1 the divisor generator yields 0 first and
\* then exactly the positive divisors of n in ascending order, each once; for
\* n = 8 the sequence is [0, 1, 2, 4, 8].
C14_DivisorSequence ==
  div_out # <<"unset">> =>
    /\ div_out[2] = <<0>> \o DivisorsUpTo(div_n, div_n)
    /\ div_n = 8 => div_out[2] = <<0, 1, 2, 4, 8>>

\* the scalar boundary-condition fields
ScalarBCNames == {"nclxS1", "nclxSn", "nclyS1", "nclySn", "nclzS1", "nclzSn"}

\* C13 (as claimed): while an axis is periodic, assigning a nonzero value to one
\* of its scalar boundary-condition fields is rejected or forced to periodic:
\* afterwards the axis is still periodic and the scalar field still reads 0.
C13_ScalarOnPeriodicAxis ==
  (WasSet /\ call.name \in ScalarBCNames /\ call.value # 0
     /\ pre["_ncl" \o AxisOf[call.name]])
    => prm["_ncl" \o AxisOf[call.name]] /\ prm[call.name] = 0

\* the other one of p_row and p_col
Partner(name) == IF name = "p_row" THEN "p_col" ELSE "p_row"

\* C15 (as claimed): when p_row is assigned a value that is 0 or does not divide
\* ncores, p_col is 0 afterwards; symmetrically for assigning p_col.
C15_NonDivisorResets ==
  (WasSet /\ call.name \in {"p_row", "p_col"} /\ call.value >= 0
     /\ (IF call.value = 0 THEN TRUE ELSE pre.ncores % call.value # 0))
    => prm[Partner(call.name)] = 0

\* C16: when p_row is assigned a positive divisor r of ncores, afterwards
\* p_row = r and p_col = ncores / r; symmetrically for assigning p_col.
C16_DivisorDecomposition ==
  (WasSet /\ call.name \in {"p_row", "p_col"} /\ call.value > 0
     /\ (IF call.value > 0 THEN pre.ncores % call.value = 0 ELSE FALSE))
    => /\ raised = "none"
       /\ prm[call.name] = call.value
       /\ prm[Partner(call.name)] = pre.ncores \div call.value
       /\ prm.ncores = pre.ncores

\* C20: on a periodic axis, assigning a nonzero value v to any one of the four
\* boundary-condition fields sets all four to v and marks the axis non-periodic;
\* on a non-periodic axis, assigning a nonzero value changes only that field.
C20_LeavingPeriodic ==
  (WasSet /\ call.name \in BCNames /\ call.value # 0
     /\ BoundsOK(call.name, call.value))
    => LET d == AxisOf[call.name]
       IN /\ raised = "none"
          /\ AllPeriodic(pre, d) =>
               /\ \A i \in 1..4 : prm[BCFields(d)[i]] = call.value
               /\ prm["_ncl" \o d] = FALSE
          /\ NonePeriodic(pre, d) => prm = [pre EXCEPT ![call.name] = call.value]

\* C20 witness: a nonzero value assigned to a scalar field of a periodic axis has
\* reached the velocity fields and cleared the flag.
C20_Witness ==
  /\ WasSet /\ call.name = "nclxSn" /\ call.value = 1 /\ raised = "none"
  /\ AllPeriodic(pre, "x") /\ pre._nclx
  /\ prm.nclx1 = 1 /\ ~prm._nclx

\* item i of the mapping is key with value
Item(mapping, i, key, value) == mapping[i][1] = key /\ mapping[i][2] = value

\* the mapping holds key with value
Holds(mapping, key, value) == \E i \in 1..Len(mapping) : Item(mapping, i, key, value)

\* C12: a load of a mapping that holds nclx1 = 0 and, later in the mapping,
\* nclxn = 1 ends with nclxn = 0: the earlier periodic value is kept
C12_ConflictingLoad ==
  (/\ call.op = "load"
   /\ raised = "none"
   /\ \E i, j \in 1..Len(call.value) :
        i < j /\ Item(call.value, i, "nclx1", 0) /\ Item(call.value, j, "nclxn", 1))
  => prm.nclxn = 0

\* the last call was a construction from keywords or a load that got past the
\* test of the extension
TookMapping ==
  \/ call.op = "construct"
  \/ call.op = "load" /\ pre.filename \in {"input.i3d", "input.prm"}

\* the mapping supplies axis dim with a point count n and with
\* boundary conditions that are all value
Supplies(mapping, dim, n, value) ==
  /\ Holds(mapping, "n" \o dim, n)
  /\ \E i \in 1..Len(mapping) : mapping[i][1] \in BCNames /\ AxisOf[mapping[i][1]] = dim
  /\ \A i \in 1..Len(mapping) :
       (mapping[i][1] \in BCNames /\ AxisOf[mapping[i][1]] = dim) => mapping[i][2] = value

\* C11: in a construction from keywords and in a load, every boundary-condition
\* field of the mapping, velocity or scalar, is assigned before any other
\* field; so a point count that comes with periodic boundary conditions is
\* validated as periodic whatever the order of the keys: a count feasible for
\* a periodic axis is accepted and stored
C11_BoundaryFirst ==
  \A dim \in Axes : \A n \in {8, 16} :
    (TookMapping /\ Supplies(call.value, dim, n, 0))
    => /\ raised = "none"
       /\ \A i \in 1..Len(warned) : warned[i] # "n" \o dim
       /\ prm["n" \o dim] = n

\* the instance was constructed with the keywords nx = n and xlx = l, in
\* either order, and no other
BuiltWith(n, l) == Len(built) = 2 /\ Holds(built, "nx", n) /\ Holds(built, "xlx", l)

\* C17: a construction with nx = N, a feasible count of a non-periodic axis,
\* and xlx = L, in either keyword order, gives dx = L / (N - 1); assigning
\* dx = D next gives xlx = D * (N - 1) and leaves nx = N
C17_ResolutionScenario ==
  \A n \in {17, 181} :
    BuiltWith(n, Rat(18, 1)) =>
      /\ call.op = "construct" => prm.dx = RatDivInt(Rat(18, 1), n - 1)
      /\ (steps = 2 /\ WasSet /\ call.name = "dx")
           => prm.xlx = RatMulInt(call.value, n - 1) /\ prm.nx = n

\* the items of the mapping whose key is a declared field
Declared(mapping) ==
  LET IsDeclared(item) == item[1] \in TraitNames
  IN SelectSeq(mapping, IsDeclared)

\* the keys of the mapping that are no declared field
Undeclared(mapping) ==
  {mapping[i][1] : i \in {j \in 1..Len(mapping) : mapping[j][1] \notin TraitNames}}

\* the names in warnings that are declared fields
DeclaredNames(warnings) ==
  LET IsDeclared(name) == name \in TraitNames
  IN SelectSeq(warnings, IsDeclared)

\* the last call ended as r: same exception, same fields, same warnings
\* about declared fields
EndedAs(r) == raised = r.exc /\ prm = r.v /\ DeclaredNames(warned) = r.warn

FailedWithoutEffect == raised # "none" /\ prm = pre /\ saved = <<>>

\* C19: load fails when the extension of the file name is neither i3d nor prm,
\* and write fails when it is not i3d, prm included; the failing call changes
\* no field and writes no file
C19_UnsupportedExtension ==
  /\ (call.op = "load" /\ pre.filename \in {"input.dat", "input"})
       => FailedWithoutEffect
  /\ (call.op = "write" /\ pre.filename \in {"input.prm", "input.dat", "input"})
       => FailedWithoutEffect

\* write has been called on an instance whose file name ends in prm
C19_Witness ==
  call.op = "write" /\ pre.filename = "input.prm" /\ raised = "NameError" /\ saved = <<>>

\* the candidate list of axis d is the table of its periodicity
TableMatches(v, d) ==
  v["_possible_mesh_" \o d] = IF v["_ncl" \o d] THEN possible_mesh_p ELSE possible_mesh

\* C21: an assignment that makes an axis periodic lowers its point count by
\* exactly 1, one that makes it non-periodic raises it by exactly 1, and in
\* every reachable state the candidate list of an axis is the periodic table
\* if and only if the axis is periodic
C21_PeriodicityTransition ==
  \A d \in Axes :
    /\ TableMatches(prm, d)
    /\ (WasSet /\ ~pre["_ncl" \o d] /\ prm["_ncl" \o d])
         => prm["n" \o d] = pre["n" \o d] - 1
    /\ (WasSet /\ pre["_ncl" \o d] /\ ~prm["_ncl" \o d])
         => prm["n" \o d] = pre["n" \o d] + 1

\* an x axis that was made periodic has been made non-periodic again
C21_Witness ==
  /\ WasSet /\ call.name \in BCNames /\ AxisOf[call.name] = "x"
  /\ pre._nclx /\ ~prm._nclx
  /\ pre._possible_mesh_x = possible_mesh_p /\ prm._possible_mesh_x = possible_mesh
  /\ prm.nx = pre.nx + 1

\* the elements of the sequence
Elements(seq) == {seq[i] : i \in 1..Len(seq)}

C23_ModelToggle ==
  /\ (WasSet /\ call.name = "ilesmod" /\ call.value = 0 /\ pre.ilesmod # 0)
       => /\ raised = "none"
          /\ prm.nu0nu = Rat(4, 1) /\ prm.cnu = Rat(44, 100) /\ prm.isecondder = 4
  /\ (WasSet /\ call.name = "ilesmod" /\ call.value = 1 /\ pre.ilesmod = 0)
       => /\ raised = "none"
          /\ prm.nu0nu = pre.nu0nu /\ prm.cnu = pre.cnu
          /\ prm.isecondder = pre.isecondder

(***************************************************************************)
(* The fields the disk-footprint estimate reads, assigned one at a time.   *)
(***************************************************************************)
SizeObserved ==
  {"nx", "ny", "nz", "numscalar", "nvisu", "icheckpoint", "ioutput", "iprocessing", "ilast"}

SizeNames == SizeObserved \cup {"itype", "itimescheme"}

SizeInputs ==
  {<<"ilast", 500>>, <<"ioutput", 7>>, <<"iprocessing", 3>>, <<"nvisu", 2>>,
   <<"itimescheme", 2>>, <<"itimescheme", 5>>, <<"nx", 33>>}

SetSize ==
  \E p \in IntInputs \cup SizeInputs :
    p[1] \in SizeNames /\ Assign(p[1], p[2], MaxGroupSteps)

NextSize == SetSize

\* only the inputs of the footprint estimate are assigned
SpecSize == Init /\ [][NextSize]_vars

\* the text of the estimate on the values v holds
Estimate(v) == convert_bytes(SizeCount(v))

\* C24: after an assignment that changes nx, ny, nz, numscalar, nvisu,
\* icheckpoint, ioutput, iprocessing or ilast, the size text is the byte
\* count of the current values (restart + snapshot terms, plane terms only
\* for itype 10) scaled by powers of 1000 to the first of bytes, KB, MB,
\* GB, TB in which it is below 1000
C24_FootprintRecomputation ==
  (WasSet /\ call.name \in SizeObserved /\ prm[call.name] # pre[call.name])
    => prm.size = Estimate(prm)

\* the positions of the lines of text written for the key f
LinesOf(text, f) ==
  { pos \in UNION { UNION { { <<b, i, k>> : k \in DOMAIN text[b].params[i] }
                            : i \in DOMAIN text[b].params }
                    : b \in DOMAIN text } :
      text[pos[1]].params[pos[2]][pos[3]].key = f }

\* text has the entry f(n) = x, or f = x for n = 0
Entry(text, f, n, x) ==
  \E pos \in LinesOf(text, f) :
    LET line == text[pos[1]].params[pos[2]][pos[3]]
    IN line.index = n /\ line.value = x

\* text holds one entry for every grouped scalar field of v, one indexed
\* entry for every element of a grouped list field, and none for the rest
Serializes(text, v) ==
  /\ \A f \in GroupedTraits \ ListTraits :
       Cardinality(LinesOf(text, f)) = 1 /\ Entry(text, f, 0, v[f])
  /\ \A f \in ListTraits :
       /\ Cardinality(LinesOf(text, f)) = Len(v[f])
       /\ \A n \in 1..Len(v[f]) : Entry(text, f, n, v[f][n])
  /\ \A f \in TraitNames \ GroupedTraits : LinesOf(text, f) = {}

\* C25: the serialized text is determined by the current field values: it
\* has an entry for every field that has a group, list fields as one entry
\* key(i) per element with i from 1 in list order, and no entry for an
\* auxiliary field (filename, dx, dy, dz, ncores, size, the periodicity
\* flags, the candidate lists); write() writes exactly that text
C25_SerializationContent ==
  /\ Serializes(__repr__(prm), prm)
  /\ (call.op = "write" /\ raised = "none")
       => saved = << [name |-> prm.filename, content |-> __repr__(prm)] >>

C25_Witness ==
  /\ call.op = "write" /\ raised = "none" /\ saved # <<>>
  /\ prm.sc = <<One, Rat(1, 2)>>
  /\ Entry(saved[1].content, "sc", 2, Rat(1, 2))
  /\ Entry(saved[1].content, "numscalar", 0, 2)

(***************************************************************************)
(* _validate_mesh over the range of the candidate tables.                  *)
(***************************************************************************)
InitTable ==
  /\ prm = Default
  /\ raised = "none"
  /\ pre = Default
  /\ call = [op |-> "init", name |-> "", value |-> 0]
  /\ fired = 0
  /\ warned = <<>>
  /\ saved = <<>>
  /\ steps = 0
  /\ clean = TRUE
  /\ built = <<>>
  /\ mesh_n \in 0..MaxTableN
  /\ mesh_ncl \in BOOLEAN
  /\ mesh_out = "unset"
  /\ div_n = Default.ncores
  /\ div_out = <<"unset">>

\* the validator is applied to every count the tables span
SpecTable == InitTable /\ [][NextMesh]_vars

\* C26: for 9 <= n <= 9001 the validator accepts n on a non-periodic axis
\* exactly when n is in possible_mesh, and for 8 <= n <= 9000 it accepts n
\* on a periodic axis exactly when n is in possible_mesh_p
C26_ValidatorAgreesWithTables ==
  mesh_out # "unset" =>
    /\ (~mesh_ncl /\ mesh_n >= 9 /\ mesh_n <= 9001)
         => (mesh_out = "ok" <=> mesh_n \in Elements(possible_mesh))
    /\ (mesh_ncl /\ mesh_n >= 8 /\ mesh_n <= 9000)
         => (mesh_out = "ok" <=> mesh_n \in Elements(possible_mesh_p))

C26_Witness ==
  /\ mesh_out = "ok" /\ mesh_ncl /\ mesh_n = 9000
  /\ mesh_n \in Elements(possible_mesh_p)
  /\ possible_mesh[Len(possible_mesh)] = 9001

\* C27: after a single assignment f := v that returns without error the
\* field f holds v: the propagation the assignment triggers never
\* overwrites the field just assigned
C27_AssignedValueKept ==
  (WasSet /\ raised = "none") => prm[call.name] = call.value

(***************************************************************************)
(* An axis made periodic and non-periodic again, after assignments to the  *)
(* per-axis fields.                                                        *)
(***************************************************************************)
AxisNames == DOMAIN AxisOf \ {"_nclx", "_ncly", "_nclz"}

CycleInputs == {<<"nx", 33>>, <<"nclx1", 0>>, <<"nclz1", 0>>, <<"ny", 10>>}

SetAxisInt ==
  \E p \in IntInputs \cup CycleInputs :
    p[1] \in AxisNames /\ Assign(p[1], p[2], MaxSteps)

SetAxisFloat ==
  \E p \in FloatInputs : p[1] \in AxisNames /\ Assign(p[1], p[2], MaxSteps)

\* the assignment prm.<name> = value made after the call that ended as first;
\* it is not reached when that call raised
Then(first, name, value) ==
  IF first.exc # "none" THEN first ELSE Run(SetAttr(first, name, value))

\* prm.<a> = 0; prm.<b> = value for two boundary-condition fields a, b of an
\* axis that is not periodic
Cycle ==
  /\ steps <= MaxSteps
  /\ \E d \in Axes :
       /\ ~prm["_ncl" \o d]
       /\ \E i \in 1..4, j \in 1..4, value \in {1, 2} :
            Outcome(Then(Run(SetAttr(Machine(prm), BCFields(d)[i], 0)),
                         BCFields(d)[j], value),
                    [op |-> "cycle", name |-> BCFields(d)[i],
                     value |-> <<BCFields(d)[j], value>>],
                    MaxSteps + 1)
  /\ UNCHANGED built

NextCycle == SetAxisInt \/ SetAxisFloat \/ Cycle

SpecCycle == Init /\ [][NextCycle]_vars

\* C28: from a reachable state in which an axis is not periodic, assigning 0
\* to one of its boundary-condition fields and then a nonzero value to one
\* of them restores the axis's point count and leaves its resolution and
\* domain length as they were before the two assignments
C28_PeriodicityRoundTrip ==
  call.op = "cycle" =>
    LET d == AxisOf[call.name]
    IN /\ prm["n" \o d] = pre["n" \o d]
       /\ prm["d" \o d] = pre["d" \o d]
       /\ prm[d \o "l" \o d] = pre[d \o "l" \o d]

\* the per-axis fields of axis d: point count, resolution, domain length,
\* boundary conditions, periodicity flag and candidate list
AxisFields(d) ==
  {"n" \o d, "d" \o d, d \o "l" \o d, "_ncl" \o d, "_possible_mesh_" \o d}
    \cup Elements(BCFields(d))

\* the fields in names hold in prm what they held before the call
Untouched(names) == \A f \in names : prm[f] = pre[f]

\* C29: an assignment to a point count, resolution, domain length or
\* boundary-condition field of one axis changes no per-axis field of another
\* axis and none of ncores, p_row, p_col; an assignment to ncores, p_row or
\* p_col changes no per-axis field
C29_AxisGroupIndependence ==
  /\ (WasSet /\ call.name \in AxisNames)
       => /\ \A e \in Axes \ {AxisOf[call.name]} : Untouched(AxisFields(e))
          /\ Untouched(DecompNames)
  /\ (WasSet /\ call.name \in DecompNames)
       => \A e \in Axes : Untouched(AxisFields(e))

C29_Witness ==
  /\ WasSet /\ call.name = "nclzn" /\ call.value = 0 /\ raised = "none"
  /\ prm.nz = pre.nz - 1 /\ prm._nclz /\ ~pre._nclz
  /\ pre.nx # Default.nx /\ pre._nclx
  /\ Untouched(AxisFields("x")) /\ Untouched(AxisFields("y")) /\ Untouched(DecompNames)

\* C30: in every reachable state the size text is the estimate on the
\* current values of nx, ny, nz, numscalar, itimescheme, itype, ilast,
\* icheckpoint, ioutput and iprocessing, the default-constructed state and
\* the states reached by assigning itype or itimescheme included
C30_FootprintNeverStale == prm.size = Estimate(prm)

\* the byte count is not negative and text is a defined size text: one of
\* the five units with a scaled value below 1000
InRange(count, text) ==
  /\ ~count.neg
  /\ text # NoneText
  /\ \E k \in 1..Len(Units) : text.unit = Units[k]
  /\ BigLess(text.tenths, <<0, 10>>)

\* C31: for every reachable combination of field values the estimated byte
\* count is at least 0 and its conversion is a defined text with a unit of
\* bytes, KB, MB, GB, TB and a scaled value below 1000, so an assignment
\* that recomputes the footprint never fails
C31_FootprintRange ==
  /\ InRange(SizeCount(prm), convert_bytes(SizeCount(prm)))
  /\ (WasSet /\ call.name \in SizeObserved /\ prm[call.name] # pre[call.name])
       => raised = "none"

\* the mapping holds a boundary-condition key of axis dim
HasBC(mapping, dim) ==
  \E i \in 1..Len(mapping) : mapping[i][1] \in BCNames /\ AxisOf[mapping[i][1]] = dim

\* the keys of the mapping, grouped fields other than boundary conditions,
\* whose value validation refuses when load comes to them from the values v:
\* a value out of the declared bounds, or a point count infeasible for the
\* boundary condition in effect (the flag of v when the mapping changes no
\* boundary condition of the axis, either flag otherwise)
RejectedKeys(mapping, v) ==
  { mapping[i][1] : i \in
      { j \in 1..Len(mapping) :
          /\ mapping[j][1] \in GroupedTraits \ BCNames
          /\ \/ ~BoundsOK(mapping[j][1], mapping[j][2])
             \/ /\ mapping[j][1] \in {"nx", "ny", "nz"}
                /\ \/ \A ncl \in BOOLEAN :
                        _validate_mesh(mapping[j][2], ncl) = "TraitError"
                   \/ /\ ~HasBC(mapping, AxisOf[mapping[j][1]])
                      /\ _validate_mesh(mapping[j][2],
                                        v["_ncl" \o AxisOf[mapping[j][1]]]) = "TraitError" } }

\* the items of the mapping whose key is not in keys
Without(mapping, keys) ==
  LET Keep(item) == item[1] \notin keys
  IN SelectSeq(mapping, Keep)

\* the last call left the fields and the exception state of r
AppliedAs(r) == raised = r.exc /\ prm = r.v

\* C32: when load meets a grouped key other than a boundary condition whose
\* value validation refuses (out of bounds, or a point count infeasible for
\* the boundary condition in effect), load does not raise, a warning names
\* the key, the field keeps its prior value, and the other keys are applied
\* as in a load of the mapping without the refused keys
C32_LoadSkipsInvalid ==
  (/\ call.op = "load"
   /\ pre.filename \in {"input.i3d", "input.prm"}
   /\ RejectedKeys(call.value, pre) # {})
  => /\ raised = "none"
     /\ \A key \in RejectedKeys(call.value, pre) :
          /\ \E i \in 1..Len(warned) : warned[i] = key
          /\ (key \in {"nx", "ny", "nz"} => ~HasBC(call.value, AxisOf[key]))
               => prm[key] = pre[key]
     /\ AppliedAs(Run(Enter(Machine(pre), "load",
                            Without(call.value, RejectedKeys(call.value, pre)))))

C32_Witness ==
  /\ call.op = "load" /\ raised = "none"
  /\ RejectedKeys(call.value, pre) = {"numscalar", "nx"}
  /\ Holds(call.value, "numscalar", 10) /\ Holds(call.value, "nx", 16)
  /\ prm.numscalar = pre.numscalar /\ prm.nx = pre.nx /\ ~pre._nclx
  /\ warned = <<"numscalar", "nx">>
  /\ pre.ny # 9 /\ prm.ny = 9 /\ pre.ilast # 500 /\ prm.ilast = 500

====
